---- MODULE Spec2Model ----
(***************************************************************************)
(* Model of pkg/proto/eth_transaction.go (gowaves): the Ethereum           *)
(* transaction envelope, its canonical codec, its memoised id and sender   *)
(* key, and its validator; and of txSnapshot.Apply (pkg/state).            *)
(*                                                                         *)
(* Numbers wider than a machine int (math/big.Int, uint64) are held as in  *)
(* math/big: a sign and a magnitude, the magnitude being the minimal       *)
(* big-endian byte string that the canonical byte format also puts on the  *)
(* wire (the empty string is zero).                                        *)
(***************************************************************************)
EXTENDS Integers, Sequences, FiniteSets, TLC

VARIABLES
    tx,    \* the EthereumTransaction object: inner, innerBinarySize, id, senderPK
    wire,  \* canonical bytes received and not yet decoded, or Nil
    res,   \* the last completed call: its inputs, the receiver before it, its results
    pc,    \* per goroutine: where it stands in GetID or Verify
    loc,   \* per goroutine: the locals of its call
    apply  \* the running txSnapshot.Apply call: receiver, position, calls made; or Nil

vars == <<tx, wire, res, pc, loc, apply>>

\* A nil pointer, a nil interface, a nil error, an empty atomic.Value.
Nil == [nil |-> TRUE]

(***************************************************************************)
(* Byte strings and big integers                                           *)
(***************************************************************************)

\* Model bound: the longest call data of a generated payload.
MaxDataLen == 1

\* Model bound: the number of goroutines that race on one transaction.
NumThreads == 2

\* Model bound: the longest list of regular, and of internal, snapshots.
MaxSnapshots == 2

RECURSIVE NatToBytes(_)
\* big.Int.Bytes of a small natural: minimal big-endian bytes.
NatToBytes(n) == IF n = 0 THEN <<>> ELSE NatToBytes(n \div 256) \o <<n % 256>>

RECURSIVE StripZeros(_)
StripZeros(b) == IF b # <<>> /\ b[1] = 0 THEN StripZeros(Tail(b)) ELSE b

RECURSIVE LexCmp(_, _)
\* bytes.Compare of two strings of one length.
LexCmp(a, b) ==
    IF a = <<>> THEN 0
    ELSE IF a[1] < b[1] THEN -1
    ELSE IF a[1] > b[1] THEN 1
    ELSE LexCmp(Tail(a), Tail(b))

\* Comparison of two magnitudes (minimal byte strings).
AbsCmp(a, b) ==
    IF Len(a) < Len(b) THEN -1
    ELSE IF Len(a) > Len(b) THEN 1
    ELSE LexCmp(a, b)

\* A big.Int of sign and magnitude; zero is never negative.
MkBig(neg, abs) == [neg |-> neg /\ abs # <<>>, abs |-> abs]

\* big.NewInt(n) for a small n.
BigOf(n) == IF n < 0 THEN MkBig(TRUE, NatToBytes(-n)) ELSE MkBig(FALSE, NatToBytes(n))

big0 == BigOf(0)

\* x.Cmp(y)
Cmp(x, y) ==
    IF x.neg /\ ~y.neg THEN -1
    ELSE IF ~x.neg /\ y.neg THEN 1
    ELSE IF x.neg THEN AbsCmp(y.abs, x.abs)
    ELSE AbsCmp(x.abs, y.abs)

RECURSIVE DivLoop(_, _, _, _)
\* Schoolbook division of a magnitude by a small d: quotient digits and remainder.
DivLoop(b, d, rem, acc) ==
    IF b = <<>> THEN [q |-> StripZeros(acc), r |-> rem]
    ELSE LET cur == rem * 256 + b[1]
         IN DivLoop(Tail(b), d, cur % d, Append(acc, cur \div d))

AbsDivSmall(b, d) == DivLoop(b, d, 0, <<>>)

RECURSIVE AddLoop(_, _)
\* A magnitude (least significant byte last) plus a small carry.
AddLoop(b, carry) ==
    IF carry = 0 THEN b
    ELSE IF b = <<>> THEN NatToBytes(carry)
    ELSE LET n == Len(b)
             s == b[n] + carry
         IN AddLoop(SubSeq(b, 1, n - 1), s \div 256) \o <<s % 256>>

AbsAddSmall(b, k) == AddLoop(b, k)

RECURSIVE SubLoop(_, _)
\* A magnitude minus a small k, for a magnitude that is at least k.
SubLoop(b, k) ==
    IF k = 0 THEN b
    ELSE LET n == Len(b)
             lo == k % 256
             borrow == IF b[n] < lo THEN 1 ELSE 0
         IN SubLoop(SubSeq(b, 1, n - 1), k \div 256 + borrow)
                \o <<(b[n] + 256 * borrow) - lo>>

AbsSubSmall(b, k) == StripZeros(SubLoop(b, k))

RECURSIVE MulLoop(_, _, _)
\* A magnitude times a small m.
MulLoop(b, m, carry) ==
    IF b = <<>> THEN NatToBytes(carry)
    ELSE LET n == Len(b)
             p == b[n] * m + carry
         IN MulLoop(SubSeq(b, 1, n - 1), m, p \div 256) \o <<p % 256>>

AbsMulSmall(b, m) == IF m = 0 THEN <<>> ELSE MulLoop(b, m, 0)

\* big.Int.IsInt64: -2^63 <= x <= 2^63 - 1.
IsInt64(x) ==
    \/ Len(x.abs) <= 7
    \/ Len(x.abs) = 8 /\ x.abs[1] < 128
    \/ x.neg /\ x.abs = <<128, 0, 0, 0, 0, 0, 0, 0>>

\* big.Int.BitLen() <= 8 * n, for whole bytes.
FitsBytes(x, n) == Len(x.abs) <= n

(***************************************************************************)
(* The variant payloads (EthereumTxData) and the envelope's accessors      *)
(***************************************************************************)

EthereumLegacyTxType == 0
EthereumAccessListTxType == 1
EthereumDynamicFeeTxType == 2

ethereumGWei == 1000000000

\* const EthereumGasPrice = 10 * ethereumGWei
EthereumGasPrice == MkBig(FALSE, AbsMulSmall(NatToBytes(ethereumGWei), 10))

\* EthereumLegacyTx: [nonce, gasPrice, gasLimit, to, value, data, v, r, s].
LegacyTx(nonce, gasPrice, gas, to, value, data, v, r, s) ==
    [txType |-> EthereumLegacyTxType, Nonce |-> nonce, GasPrice |-> gasPrice,
     Gas |-> gas, To |-> to, Value |-> value, Data |-> data,
     V |-> v, R |-> r, S |-> s]

\* EthereumAccessListTx: the chain id and an access list are added.
AccessListTx(chainID, nonce, gasPrice, gas, to, value, data, al, v, r, s) ==
    [txType |-> EthereumAccessListTxType, ChainID |-> chainID, Nonce |-> nonce,
     GasPrice |-> gasPrice, Gas |-> gas, To |-> to, Value |-> value,
     Data |-> data, AccessList |-> al, V |-> v, R |-> r, S |-> s]

\* EthereumDynamicFeeTx: the gas price is replaced by a tip cap and a fee cap.
DynamicFeeTx(chainID, nonce, tip, fee, gas, to, value, data, al, v, r, s) ==
    [txType |-> EthereumDynamicFeeTxType, ChainID |-> chainID, Nonce |-> nonce,
     GasTipCap |-> tip, GasFeeCap |-> fee, Gas |-> gas, To |-> to,
     Value |-> value, Data |-> data, AccessList |-> al, V |-> v, R |-> r, S |-> s]

\* The chain id bound into a legacy v scalar: v = 2 * chainID + 35 or 36;
\* zero for a v that binds no chain.
deriveChainId(v) ==
    IF AbsCmp(v.abs, NatToBytes(35)) >= 0
    THEN MkBig(FALSE, AbsDivSmall(AbsSubSmall(v.abs, 35), 2).q)
    ELSE big0

\* inner.chainID()
chainID(inner) ==
    IF inner.txType = EthereumLegacyTxType THEN deriveChainId(inner.V)
    ELSE inner.ChainID

\* inner.gasPrice(): the fee cap stands for the price of a dynamic-fee payload.
gasPrice(inner) ==
    IF inner.txType = EthereumDynamicFeeTxType THEN inner.GasFeeCap
    ELSE inner.GasPrice

\* The zero value of EthereumTransaction.
ZeroTx == [inner |-> Nil, innerBinarySize |-> 0, id |-> Nil, senderPK |-> Nil]

EthereumTxType(t) == t.inner.txType
ChainId(t) == chainID(t.inner)
Data(t) == t.inner.Data
Gas(t) == t.inner.Gas
GasPrice(t) == gasPrice(t.inner)
Value(t) == t.inner.Value
Nonce(t) == t.inner.Nonce
To(t) == t.inner.To

(***************************************************************************)
(* Validate                                                                *)
(***************************************************************************)

\* EthereumWeiToWavelet: wei / 10^10 (Euclidean, as big.Int.Div), an error
\* when the quotient is no int64 ("too many waves").
EthereumWeiToWavelet(wei) ==
    LET d1 == AbsDivSmall(wei.abs, 100000)
        d2 == AbsDivSmall(d1.q, 100000)
        exact == d1.r = 0 /\ d2.r = 0
        q == IF wei.neg
             THEN MkBig(TRUE, IF exact THEN d2.q ELSE AbsAddSmall(d2.q, 1))
             ELSE MkBig(FALSE, d2.q)
    IN IF IsInt64(q) THEN [wavelets |-> q, err |-> Nil]
       ELSE [wavelets |-> big0, err |-> [msg |-> "too many waves"]]

\* errs.NewTxValidationError, errs.NewFeeValidation, errs.NewNonPositiveAmount
NewTxValidationError(msg) == [type |-> "TxValidationError", msg |-> msg]
NewFeeValidation(msg) == [type |-> "FeeValidation", msg |-> msg]
NewNonPositiveAmount(asset) == [type |-> "NonPositiveAmount", msg |-> asset]

Rejected(e) == [ret |-> Nil, err |-> e]

\* The conditions of Validate's checks, one per if statement.

\* tx.ChainId().Cmp(big.NewInt(int64(scheme))) != 0
wrongChainID(t, scheme) == Cmp(ChainId(t), BigOf(scheme)) # 0

\* The variant check rejecting the access-list variant only.
notLegacyAccessListOnly(t) == EthereumTxType(t) = EthereumAccessListTxType

\* tx.EthereumTxType() != EthereumLegacyTxType
notLegacyTx(t) == EthereumTxType(t) # EthereumLegacyTxType

\* tx.innerBinarySize > 1024*1024
tooBigSize(t) == t.innerBinarySize > 1024 * 1024

\* tx.Gas() <= 0
insufficientFee(t) == AbsCmp(Gas(t), <<>>) <= 0

\* The amount check written with <= in place of <.
nonPositiveAmountOrZero(wavelets) == Cmp(wavelets, big0) <= 0

\* wavelets < 0
nonPositiveAmount(wavelets) == Cmp(wavelets, big0) < 0

\* tx.Value().Cmp(big0) == 0 && len(tx.Data()) == 0
cancelTransaction(t) == Cmp(Value(t), big0) = 0 /\ Len(Data(t)) = 0

\* The either-data-or-value check written with || in place of &&.
dataOrValue(t) == Cmp(Value(t), big0) # 0 \/ Len(Data(t)) # 0

\* tx.Value().Cmp(big0) != 0 && len(tx.Data()) != 0
dataAndValue(t) == Cmp(Value(t), big0) # 0 /\ Len(Data(t)) # 0

\* The gas price check left out.
gasPriceUnchecked(t) == FALSE

\* tx.GasPrice().Cmp(new(big.Int).SetUint64(EthereumGasPrice)) != 0
wrongGasPrice(t) == Cmp(GasPrice(t), EthereumGasPrice) # 0

\* The recipient check left out.
recipientUnchecked(t) == FALSE

\* tx.To() == nil
contractCreation(t) == To(t) = Nil

\* The timestamp check written with <= 1 in place of <= 0.
invalidTimestampOffByOne(t) == AbsCmp(Nonce(t), NatToBytes(1)) <= 0

\* The nonce check made to ask for a cached sender key as well.
invalidTimestampOrNoSender(t) == Nonce(t) = <<>> \/ t.senderPK = Nil

\* tx.Nonce() <= 0
invalidTimestamp(t) == AbsCmp(Nonce(t), <<>>) <= 0

\* Validate with the size check moved in front of the chain check.
ValidateSizeFirst(t, scheme) ==
    LET conv == EthereumWeiToWavelet(Value(t))
    IN IF tooBigSize(t)
       THEN Rejected(NewTxValidationError("too big size of transaction"))
       ELSE IF wrongChainID(t, scheme)
       THEN Rejected(NewTxValidationError("Address belongs to another network"))
       ELSE IF notLegacyTx(t)
       THEN Rejected(NewTxValidationError("the ethereum transaction's type is not legacy tx"))
       ELSE IF insufficientFee(t)
       THEN Rejected(NewFeeValidation("insufficient fee"))
       ELSE IF conv.err # Nil
       THEN Rejected(NewFeeValidation(conv.err.msg))
       ELSE IF nonPositiveAmount(conv.wavelets)
       THEN Rejected(NewNonPositiveAmount("waves"))
       ELSE IF cancelTransaction(t)
       THEN Rejected(NewTxValidationError("Transaction cancellation is not supported"))
       ELSE IF dataAndValue(t)
       THEN Rejected(NewTxValidationError("Transaction should have either data or value"))
       ELSE IF wrongGasPrice(t)
       THEN Rejected(NewTxValidationError("Gas price must be 10 Gwei"))
       ELSE IF contractCreation(t)
       THEN Rejected(NewTxValidationError("Contract creation transaction is not supported"))
       ELSE IF invalidTimestamp(t)
       THEN Rejected(NewTxValidationError("invalid timestamp"))
       ELSE [ret |-> t, err |-> Nil]

\* (tx *EthereumTransaction) Validate(scheme): the checks in source order.
Validate(t, scheme) ==
    LET conv == EthereumWeiToWavelet(Value(t))
    IN IF wrongChainID(t, scheme)
       THEN Rejected(NewTxValidationError("Address belongs to another network"))
       ELSE IF notLegacyTx(t)
       THEN Rejected(NewTxValidationError("the ethereum transaction's type is not legacy tx"))
       ELSE IF tooBigSize(t)
       THEN Rejected(NewTxValidationError("too big size of transaction"))
       ELSE IF insufficientFee(t)
       THEN Rejected(NewFeeValidation("insufficient fee"))
       ELSE IF conv.err # Nil
       THEN Rejected(NewFeeValidation(conv.err.msg))
       ELSE IF nonPositiveAmount(conv.wavelets)
       THEN Rejected(NewNonPositiveAmount("waves"))
       ELSE IF cancelTransaction(t)
       THEN Rejected(NewTxValidationError("Transaction cancellation is not supported"))
       ELSE IF dataAndValue(t)
       THEN Rejected(NewTxValidationError("Transaction should have either data or value"))
       ELSE IF wrongGasPrice(t)
       THEN Rejected(NewTxValidationError("Gas price must be 10 Gwei"))
       ELSE IF contractCreation(t)
       THEN Rejected(NewTxValidationError("Contract creation transaction is not supported"))
       ELSE IF invalidTimestamp(t)
       THEN Rejected(NewTxValidationError("invalid timestamp"))
       ELSE [ret |-> t, err |-> Nil]

(***************************************************************************)
(* The payloads and targets the checks draw from                           *)
(***************************************************************************)

Threads == 1..NumThreads

\* Target ledgers: 'T' and 'W'.
Schemes == {84, 87}

Address1 == [i \in 1..20 |-> 16 + i]

Recipients == {Nil, [addr |-> Address1]}

\* Call data of every length up to MaxDataLen.
DataSet == {[i \in 1..n |-> 170] : n \in 0..MaxDataLen}

\* 2^63 * 10^10 wei: the least amount whose wavelets are no int64.
TooManyWei == AbsMulSmall(AbsMulSmall(<<128, 0, 0, 0, 0, 0, 0, 0>>, 100000), 100000)

\* Amounts in wei: on both sides of zero, of one wavelet and of the int64 range.
WeiAmounts ==
    {BigOf(-1), big0, BigOf(5), EthereumGasPrice,
     MkBig(FALSE, AbsSubSmall(TooManyWei, 1)), MkBig(FALSE, TooManyWei),
     MkBig(TRUE, AbsAddSmall(TooManyWei, 1))}

GasPrices == {BigOf(ethereumGWei), EthereumGasPrice}

\* uint64 fields: zero, and one positive value.
GasLimits == {<<>>, NatToBytes(21000)}
Nonces == {<<>>, NatToBytes(1)}

\* A legacy v: unprotected (27), or bound to a chain.
LegacyVs == {BigOf(27)} \cup {BigOf(2 * c + 35) : c \in Schemes}

\* Recorded encoded lengths on both sides of the 1 MiB ceiling.
Sizes == {100, 1024 * 1024, 1024 * 1024 + 1}

SigR == BigOf(4660)
SigS == BigOf(22136)

ValidateInners ==
    {LegacyTx(n, gp, g, to, val, d, v, SigR, SigS) :
        n \in Nonces, gp \in GasPrices, g \in GasLimits, to \in Recipients,
        val \in WeiAmounts, d \in DataSet, v \in LegacyVs}
    \cup
    {AccessListTx(BigOf(c), n, gp, g, to, val, d, <<>>, BigOf(1), SigR, SigS) :
        c \in Schemes, n \in Nonces, gp \in GasPrices, g \in GasLimits,
        to \in Recipients, val \in {big0, EthereumGasPrice}, d \in DataSet}
    \cup
    {DynamicFeeTx(BigOf(c), n, BigOf(1), gp, g, to, val, d, <<>>, BigOf(0), SigR, SigS) :
        c \in Schemes, n \in Nonces, gp \in GasPrices, g \in GasLimits,
        to \in Recipients, val \in {big0, EthereumGasPrice}, d \in DataSet}

NoCall == [op |-> "none"]

IdleThreads == [t \in Threads |-> "idle"]
NoLocals == [t \in Threads |-> Nil]

(***************************************************************************)
(* SpecValidate: Validate applied to every payload of ValidateInners       *)
(***************************************************************************)

InitValidate ==
    /\ \E inner \in ValidateInners, size \in Sizes :
          tx = [inner |-> inner, innerBinarySize |-> size, id |-> Nil, senderPK |-> Nil]
    /\ wire = Nil
    /\ res = NoCall
    /\ pc = IdleThreads
    /\ loc = NoLocals
    /\ apply = Nil

\* One call tx.Validate(scheme); the receiver is only read.
DoValidate(scheme) ==
    /\ tx.inner # Nil
    /\ \A t \in Threads : pc[t] = "idle"
    /\ res' = [op |-> "Validate", scheme |-> scheme, pre |-> tx,
               ret |-> Validate(tx, scheme).ret, err |-> Validate(tx, scheme).err]
    /\ UNCHANGED <<tx, wire, pc, loc, apply>>

NextValidate == \E scheme \in Schemes : DoValidate(scheme)

SpecValidate == InitValidate /\ [][NextValidate]_vars

(***************************************************************************)
(* Canonical byte format: the recursive length-prefixed encoding of byte   *)
(* strings and lists                                                       *)
(***************************************************************************)

RlpBytes(b) == [k |-> "bytes", b |-> b]
RlpList(items) == [k |-> "list", items |-> items]

RECURSIVE Flatten(_)
Flatten(ss) == IF ss = <<>> THEN <<>> ELSE Head(ss) \o Flatten(Tail(ss))

\* The length prefix of a payload of n bytes: one byte up to 55, else the
\* length of the length and the minimal big-endian length.
Prefix(short, n) ==
    IF n <= 55 THEN <<short + n>>
    ELSE <<short + 55 + Len(NatToBytes(n))>> \o NatToBytes(n)

RECURSIVE MarshalTo(_)
\* fastrlp Value.MarshalTo: a single byte below 0x80 stands for itself.
MarshalTo(v) ==
    IF v.k = "bytes"
    THEN IF Len(v.b) = 1 /\ v.b[1] < 128 THEN v.b
         ELSE Prefix(128, Len(v.b)) \o v.b
    ELSE LET payload == Flatten([i \in 1..Len(v.items) |-> MarshalTo(v.items[i])])
         IN Prefix(192, Len(payload)) \o payload

\* A big-endian length of at most three bytes.
BytesToNat(b) ==
    IF Len(b) = 0 THEN 0
    ELSE IF Len(b) = 1 THEN b[1]
    ELSE IF Len(b) = 2 THEN b[1] * 256 + b[2]
    ELSE (b[1] * 256 + b[2]) * 256 + b[3]

ParseFailed(msg) == [err |-> [msg |-> msg], v |-> Nil, rest |-> <<>>]
Parsed(v, rest) == [err |-> Nil, v |-> v, rest |-> rest]

\* The payload length a long-form prefix announces, or -1 for a malformed
\* prefix (leading zero byte, a length the short form holds) and for a
\* length beyond any input (more than three length bytes).
LongLength(lb) ==
    IF lb = <<>> \/ lb[1] = 0 \/ Len(lb) > 3 THEN -1
    ELSE IF BytesToNat(lb) <= 55 THEN -1
    ELSE BytesToNat(lb)

RECURSIVE ParseValue(_)
RECURSIVE ParseItems(_, _)
\* fastrlp parseValue: the first value of b and the bytes after it.
ParseValue(b) ==
    IF b = <<>> THEN ParseFailed("cannot parse empty input")
    ELSE
    LET p == b[1]
        long == p > 183 /\ (p <= 191 \/ p > 247)
        ll == IF ~long THEN 0 ELSE IF p <= 191 THEN p - 183 ELSE p - 247
        n == IF p < 128 THEN 0
             ELSE IF p <= 183 THEN p - 128
             ELSE IF p <= 191 \/ p > 247
                  THEN (IF Len(b) < 1 + ll THEN -1 ELSE LongLength(SubSeq(b, 2, 1 + ll)))
             ELSE p - 192
        from == 2 + ll
        payload == SubSeq(b, from, from + n - 1)
        rest == SubSeq(b, from + n, Len(b))
    IN IF p < 128 THEN Parsed(RlpBytes(<<p>>), Tail(b))
       ELSE IF n < 0 THEN ParseFailed("malformed length prefix")
       ELSE IF Len(b) < 1 + ll + n THEN ParseFailed("truncated input")
       ELSE IF p <= 191 THEN Parsed(RlpBytes(payload), rest)
       ELSE LET items == ParseItems(payload, <<>>)
            IN IF items.err # Nil THEN ParseFailed(items.err.msg)
               ELSE Parsed(RlpList(items.v), rest)

\* The values a list payload holds, in order.
ParseItems(payload, acc) ==
    IF payload = <<>> THEN Parsed(acc, <<>>)
    ELSE LET first == ParseValue(payload)
         IN IF first.err # Nil THEN first
            ELSE ParseItems(first.rest, Append(acc, first.v))

\* fastrlp Parser.Parse: the first value; what follows it is not looked at.
Parse(b) == ParseValue(b)

(***************************************************************************)
(* The field layouts of the three variants over the canonical byte format  *)
(***************************************************************************)

Got(x) == [err |-> Nil, x |-> x]
NotGot(msg) == [err |-> [msg |-> msg], x |-> Nil]

\* An integer field: a byte string with no leading zero byte.
GetBigInt(v) ==
    IF v.k # "bytes" THEN NotGot("not a byte string")
    ELSE IF v.b # <<>> /\ v.b[1] = 0 THEN NotGot("non-canonical integer")
    ELSE Got(MkBig(FALSE, v.b))

\* A uint64 field: an integer of at most eight bytes.
GetUint64(v) ==
    IF v.k # "bytes" THEN NotGot("not a byte string")
    ELSE IF v.b # <<>> /\ v.b[1] = 0 THEN NotGot("non-canonical integer")
    ELSE IF Len(v.b) > 8 THEN NotGot("integer overflows uint64")
    ELSE Got(v.b)

GetBytes(v) ==
    IF v.k # "bytes" THEN NotGot("not a byte string") ELSE Got(v.b)

\* The optional recipient: the empty string is no recipient, else 20 bytes.
GetTo(v) ==
    IF v.k # "bytes" THEN NotGot("not a byte string")
    ELSE IF v.b = <<>> THEN Got(Nil)
    ELSE IF Len(v.b) # 20 THEN NotGot("wrong address size")
    ELSE Got([addr |-> v.b])

\* One access-list entry: [address, [storage key, ...]].
GetAccessTuple(v) ==
    IF v.k # "list" \/ Len(v.items) # 2 THEN NotGot("wrong access tuple")
    ELSE IF v.items[1].k # "bytes" \/ Len(v.items[1].b) # 20 THEN NotGot("wrong address size")
    ELSE IF v.items[2].k # "list" THEN NotGot("storage keys are no list")
    ELSE IF \E i \in 1..Len(v.items[2].items) :
                v.items[2].items[i].k # "bytes" \/ Len(v.items[2].items[i].b) # 32
         THEN NotGot("wrong storage key size")
    ELSE Got([Address |-> v.items[1].b,
              StorageKeys |-> [i \in 1..Len(v.items[2].items) |-> v.items[2].items[i].b]])

GetAccessList(v) ==
    IF v.k # "list" THEN NotGot("access list is no list")
    ELSE IF \E i \in 1..Len(v.items) : GetAccessTuple(v.items[i]).err # Nil
         THEN NotGot("wrong access tuple")
    ELSE Got([i \in 1..Len(v.items) |-> GetAccessTuple(v.items[i]).x])

\* The first error among the decoded fields, or none.
FirstErr(fs) ==
    IF \A i \in 1..Len(fs) : fs[i].err = Nil THEN Nil
    ELSE fs[CHOOSE i \in 1..Len(fs) :
                fs[i].err # Nil /\ \A j \in 1..(i - 1) : fs[j].err = Nil].err

\* EthereumLegacyTx.unmarshalFromFastRLP
unmarshalLegacy(v) ==
    IF v.k # "list" \/ Len(v.items) # 9 THEN NotGot("wrong number of fields")
    ELSE LET e == v.items
             fs == <<GetUint64(e[1]), GetBigInt(e[2]), GetUint64(e[3]), GetTo(e[4]),
                     GetBigInt(e[5]), GetBytes(e[6]), GetBigInt(e[7]), GetBigInt(e[8]),
                     GetBigInt(e[9])>>
         IN IF FirstErr(fs) # Nil THEN [err |-> FirstErr(fs), x |-> Nil]
            ELSE Got(LegacyTx(fs[1].x, fs[2].x, fs[3].x, fs[4].x, fs[5].x, fs[6].x,
                              fs[7].x, fs[8].x, fs[9].x))

\* EthereumAccessListTx.unmarshalFromFastRLP
unmarshalAccessList(v) ==
    IF v.k # "list" \/ Len(v.items) # 11 THEN NotGot("wrong number of fields")
    ELSE LET e == v.items
             fs == <<GetBigInt(e[1]), GetUint64(e[2]), GetBigInt(e[3]), GetUint64(e[4]),
                     GetTo(e[5]), GetBigInt(e[6]), GetBytes(e[7]), GetAccessList(e[8]),
                     GetBigInt(e[9]), GetBigInt(e[10]), GetBigInt(e[11])>>
         IN IF FirstErr(fs) # Nil THEN [err |-> FirstErr(fs), x |-> Nil]
            ELSE Got(AccessListTx(fs[1].x, fs[2].x, fs[3].x, fs[4].x, fs[5].x, fs[6].x,
                                  fs[7].x, fs[8].x, fs[9].x, fs[10].x, fs[11].x))

\* EthereumDynamicFeeTx.unmarshalFromFastRLP
unmarshalDynamicFee(v) ==
    IF v.k # "list" \/ Len(v.items) # 12 THEN NotGot("wrong number of fields")
    ELSE LET e == v.items
             fs == <<GetBigInt(e[1]), GetUint64(e[2]), GetBigInt(e[3]), GetBigInt(e[4]),
                     GetUint64(e[5]), GetTo(e[6]), GetBigInt(e[7]), GetBytes(e[8]),
                     GetAccessList(e[9]), GetBigInt(e[10]), GetBigInt(e[11]),
                     GetBigInt(e[12])>>
         IN IF FirstErr(fs) # Nil THEN [err |-> FirstErr(fs), x |-> Nil]
            ELSE Got(DynamicFeeTx(fs[1].x, fs[2].x, fs[3].x, fs[4].x, fs[5].x, fs[6].x,
                                  fs[7].x, fs[8].x, fs[9].x, fs[10].x, fs[11].x, fs[12].x))

\* DecodeRLP of a typed payload: parse, then unmarshal the variant's fields.
DecodeRLP(txType, rlpData) ==
    LET parsed == Parse(rlpData)
    IN IF parsed.err # Nil THEN [err |-> parsed.err, x |-> Nil]
       ELSE IF txType = EthereumAccessListTxType THEN unmarshalAccessList(parsed.v)
       ELSE unmarshalDynamicFee(parsed.v)

ToValue(to) == RlpBytes(IF to = Nil THEN <<>> ELSE to.addr)

AccessListValue(al) ==
    RlpList([i \in 1..Len(al) |->
        RlpList(<<RlpBytes(al[i].Address),
                  RlpList([j \in 1..Len(al[i].StorageKeys) |->
                              RlpBytes(al[i].StorageKeys[j])])>>)])

\* inner.marshalToFastRLP: the list of the variant's fields; an integer is
\* written as its magnitude.
marshalToFastRLP(inner) ==
    IF inner.txType = EthereumLegacyTxType
    THEN RlpList(<<RlpBytes(inner.Nonce), RlpBytes(inner.GasPrice.abs), RlpBytes(inner.Gas),
                   ToValue(inner.To), RlpBytes(inner.Value.abs), RlpBytes(inner.Data),
                   RlpBytes(inner.V.abs), RlpBytes(inner.R.abs), RlpBytes(inner.S.abs)>>)
    ELSE IF inner.txType = EthereumAccessListTxType
    THEN RlpList(<<RlpBytes(inner.ChainID.abs), RlpBytes(inner.Nonce),
                   RlpBytes(inner.GasPrice.abs), RlpBytes(inner.Gas), ToValue(inner.To),
                   RlpBytes(inner.Value.abs), RlpBytes(inner.Data),
                   AccessListValue(inner.AccessList),
                   RlpBytes(inner.V.abs), RlpBytes(inner.R.abs), RlpBytes(inner.S.abs)>>)
    ELSE RlpList(<<RlpBytes(inner.ChainID.abs), RlpBytes(inner.Nonce),
                   RlpBytes(inner.GasTipCap.abs), RlpBytes(inner.GasFeeCap.abs),
                   RlpBytes(inner.Gas), ToValue(inner.To),
                   RlpBytes(inner.Value.abs), RlpBytes(inner.Data),
                   AccessListValue(inner.AccessList),
                   RlpBytes(inner.V.abs), RlpBytes(inner.R.abs), RlpBytes(inner.S.abs)>>)

(***************************************************************************)
(* DecodeCanonical and EncodeCanonical                                     *)
(***************************************************************************)

\* errors.New, errors.Wrap
ErrorNew(msg) == [msg |-> msg, cause |-> Nil]
Wrap(err, msg) == [msg |-> msg, cause |-> err]

ErrTxTypeNotSupported == ErrorNew("transaction type not supported")

TypeName(txType) ==
    IF txType = EthereumLegacyTxType THEN "EthereumLegacyTxType"
    ELSE IF txType = EthereumAccessListTxType THEN "EthereumAccessListTxType"
    ELSE IF txType = EthereumDynamicFeeTxType THEN "EthereumDynamicFeeTxType"
    ELSE ""

\* decodeTypedCanonical: the first byte is the type tag, the rest the list.
decodeTypedCanonical(canonicalData) ==
    IF Len(canonicalData) = 0
    THEN [err |-> ErrorNew("empty typed transaction bytes"), inner |-> Nil]
    ELSE LET txType == canonicalData[1]
             rlpData == Tail(canonicalData)
             decoded == DecodeRLP(txType, rlpData)
         IN IF txType \in {EthereumAccessListTxType, EthereumDynamicFeeTxType}
            THEN IF decoded.err # Nil
                 THEN [err |-> Wrap(decoded.err, "failed to unmarshal ethereum tx from RLP, ethereumTxType"
                                                     \o " " \o TypeName(txType)),
                       inner |-> Nil]
                 ELSE [err |-> Nil, inner |-> decoded.x]
            ELSE [err |-> ErrTxTypeNotSupported, inner |-> Nil]

\* The EIP-2718 test written with >= in place of >.
firstByteFrom0x7f(canonicalData) == Len(canonicalData) > 0 /\ canonicalData[1] >= 127

\* len(canonicalData) > 0 && canonicalData[0] > 0x7f
firstByteIsLegacy(canonicalData) == Len(canonicalData) > 0 /\ canonicalData[1] > 127

\* DecodeCanonical with the length recorded before the bytes are decoded.
DecodeCanonicalSizeFirst(t, canonicalData) ==
    LET sized == [t EXCEPT !.innerBinarySize = Len(canonicalData)]
    IN IF firstByteIsLegacy(canonicalData)
       THEN LET parsed == Parse(canonicalData)
                inner == unmarshalLegacy(parsed.v)
            IN IF parsed.err # Nil
               THEN [tx |-> sized,
                     err |-> Wrap(parsed.err, "failed to parse canonical representation as RLP")]
               ELSE IF inner.err # Nil
               THEN [tx |-> sized,
                     err |-> Wrap(inner.err, "failed to unmarshal from RLP ethereum legacy transaction, ethereumTxType"
                                                 \o " " \o TypeName(EthereumLegacyTxType))]
               ELSE [tx |-> [sized EXCEPT !.inner = inner.x], err |-> Nil]
       ELSE LET typed == decodeTypedCanonical(canonicalData)
            IN IF typed.err # Nil
               THEN [tx |-> sized,
                     err |-> Wrap(typed.err, "failed to unmarshal from canonical representation ethereum typed transaction")]
               ELSE [tx |-> [sized EXCEPT !.inner = typed.inner], err |-> Nil]

\* (tx *EthereumTransaction) DecodeCanonical: the envelope after the call and
\* the error returned.
DecodeCanonical(t, canonicalData) ==
    IF firstByteIsLegacy(canonicalData)
    THEN LET parsed == Parse(canonicalData)
             inner == unmarshalLegacy(parsed.v)
         IN IF parsed.err # Nil
            THEN [tx |-> t,
                  err |-> Wrap(parsed.err, "failed to parse canonical representation as RLP")]
            ELSE IF inner.err # Nil
            THEN [tx |-> t,
                  err |-> Wrap(inner.err, "failed to unmarshal from RLP ethereum legacy transaction, ethereumTxType"
                                              \o " " \o TypeName(EthereumLegacyTxType))]
            ELSE [tx |-> [t EXCEPT !.inner = inner.x,
                                   !.innerBinarySize = Len(canonicalData)],
                  err |-> Nil]
    ELSE LET typed == decodeTypedCanonical(canonicalData)
         IN IF typed.err # Nil
            THEN [tx |-> t,
                  err |-> Wrap(typed.err, "failed to unmarshal from canonical representation ethereum typed transaction")]
            ELSE [tx |-> [t EXCEPT !.inner = typed.inner,
                                   !.innerBinarySize = Len(canonicalData)],
                  err |-> Nil]

\* encodeTypedCanonical without the type tag.
encodeTypedNoTag(t) == MarshalTo(marshalToFastRLP(t.inner))

\* encodeTypedCanonical: the type tag, then the list encoding.
encodeTypedCanonical(t) ==
    <<EthereumTxType(t)>> \o MarshalTo(marshalToFastRLP(t.inner))

\* (tx *EthereumTransaction) EncodeCanonical
EncodeCanonical(t) ==
    IF EthereumTxType(t) = EthereumLegacyTxType
    THEN MarshalTo(marshalToFastRLP(t.inner))
    ELSE encodeTypedCanonical(t)

(***************************************************************************)
(* SpecCodec: canonical bytes arrive, are decoded into the envelope,       *)
(* validated, and encoded again                                            *)
(***************************************************************************)

Key1 == [i \in 1..32 |-> 7]

AccessLists == {<<>>, <<[Address |-> Address1, StorageKeys |-> <<Key1>>]>>}

\* Call data that needs the long form of the length prefix.
LongData == [i \in 1..56 |-> 1]

\* Value and data together: data only, value only, neither, both.
ValueAndData ==
    {<<big0, d>> : d \in DataSet \ {<<>>}}
    \cup {<<EthereumGasPrice, <<>>>>, <<big0, <<>>>>, <<BigOf(5), LongData>>}

\* Valid payloads of the three variants; every integer is non-negative, as
\* the byte format has no sign.
CodecInners ==
    {LegacyTx(n, EthereumGasPrice, NatToBytes(21000), to, vd[1], vd[2], v, SigR, SigS) :
        n \in Nonces, to \in Recipients, vd \in ValueAndData, v \in LegacyVs}
    \cup
    {AccessListTx(BigOf(c), NatToBytes(1), gp, g, to, vd[1], vd[2], al, BigOf(1), SigR, SigS) :
        c \in Schemes, gp \in GasPrices, g \in GasLimits, to \in Recipients,
        vd \in ValueAndData, al \in AccessLists}
    \cup
    {DynamicFeeTx(BigOf(c), n, BigOf(1), EthereumGasPrice, g, to, vd[1], vd[2], al,
                  BigOf(0), SigR, SigS) :
        c \in Schemes, n \in Nonces, g \in GasLimits, to \in Recipients,
        vd \in ValueAndData, al \in AccessLists}

\* A fresh envelope holding a payload (the sender's side of the wire).
Holding(inner) == [ZeroTx EXCEPT !.inner = inner]

SampleLegacy ==
    LegacyTx(NatToBytes(1), EthereumGasPrice, NatToBytes(21000), [addr |-> Address1],
             big0, <<170>>, BigOf(203), SigR, SigS)
SampleAccessList ==
    AccessListTx(BigOf(84), NatToBytes(1), EthereumGasPrice, NatToBytes(21000),
                 [addr |-> Address1], big0, <<170>>, <<>>, BigOf(1), SigR, SigS)
SampleDynamicFee ==
    DynamicFeeTx(BigOf(84), NatToBytes(1), BigOf(1), EthereumGasPrice, NatToBytes(21000),
                 [addr |-> Address1], big0, <<170>>, <<>>, BigOf(0), SigR, SigS)

ListBodies ==
    {MarshalTo(marshalToFastRLP(x)) : x \in {SampleLegacy, SampleAccessList, SampleDynamicFee}}

\* A legacy list whose nonce is the non-canonical one-byte string 0x00.
NonCanonicalNonce ==
    MarshalTo(RlpList(<<RlpBytes(<<0>>)>> \o Tail(marshalToFastRLP(SampleLegacy).items)))

\* Arbitrary bytes: every leading byte alone and in front of each list body,
\* the legacy list under every leading byte above 0x7f, the empty input, a
\* truncated list and a non-canonical integer.
RawBytes ==
    {<<l>> \o b : l \in 0..255, b \in ListBodies \cup {<<>>}}
    \cup {[MarshalTo(marshalToFastRLP(SampleLegacy)) EXCEPT ![1] = l] : l \in 128..255}
    \cup {<<>>, NonCanonicalNonce,
          SubSeq(MarshalTo(marshalToFastRLP(SampleLegacy)), 1, 20)}

\* What may arrive: the encoding of a valid payload (src names it), or
\* arbitrary bytes.
CodecInputs ==
    {[bytes |-> EncodeCanonical(Holding(x)), src |-> x] : x \in CodecInners}
    \cup {[bytes |-> b, src |-> Nil] : b \in RawBytes}

\* An envelope that already holds a decoded payload.
PriorTx == DecodeCanonical(ZeroTx, EncodeCanonical(Holding(SampleLegacy))).tx

InitCodec ==
    /\ tx \in {ZeroTx, PriorTx}
    /\ wire \in CodecInputs
    /\ res = NoCall
    /\ pc = IdleThreads
    /\ loc = NoLocals
    /\ apply = Nil

\* One call tx.DecodeCanonical(wire.bytes).
DoDecodeCanonical ==
    /\ wire # Nil
    /\ \A t \in Threads : pc[t] = "idle"
    /\ tx' = DecodeCanonical(tx, wire.bytes).tx
    /\ res' = [op |-> "DecodeCanonical", input |-> wire.bytes, src |-> wire.src,
               pre |-> tx, err |-> DecodeCanonical(tx, wire.bytes).err]
    /\ wire' = Nil
    /\ UNCHANGED <<pc, loc, apply>>

\* One call tx.EncodeCanonical(); the bytes go back on the wire.
DoEncodeCanonical ==
    /\ tx.inner # Nil
    /\ wire = Nil
    /\ \A t \in Threads : pc[t] = "idle"
    /\ res' = [op |-> "EncodeCanonical", pre |-> tx, ret |-> EncodeCanonical(tx),
               err |-> Nil]
    /\ wire' = [bytes |-> EncodeCanonical(tx), src |-> tx.inner]
    /\ UNCHANGED <<tx, pc, loc, apply>>

NextCodec ==
    \/ DoDecodeCanonical
    \/ DoEncodeCanonical
    \/ \E scheme \in Schemes : DoValidate(scheme)

SpecCodec == InitCodec /\ [][NextCodec]_vars

(***************************************************************************)
(* Replay protection                                                       *)
(***************************************************************************)

\* (*big.Int).BitLen: the length of the magnitude in bits.
RECURSIVE BitLenOfByte(_)
BitLenOfByte(b) == IF b = 0 THEN 0 ELSE 1 + BitLenOfByte(b \div 2)

BitLen(x) == IF x.abs = <<>> THEN 0 ELSE 8 * (Len(x.abs) - 1) + BitLenOfByte(x.abs[1])

\* (*big.Int).Uint64: the low 64 bits of the magnitude.
Uint64(x) ==
    IF Len(x.abs) <= 8 THEN x.abs
    ELSE StripZeros(SubSeq(x.abs, Len(x.abs) - 7, Len(x.abs)))

\* isProtectedV with the test of the bit length left out.
isProtectedVLow64(V) == Uint64(V) \notin {<<27>>, <<28>>, <<1>>, <<>>}

\* isProtectedV: up to 8 bits, anything but 27, 28, 1 and 0; beyond, anything.
isProtectedV(V) ==
    IF BitLen(V) <= 8
    THEN Uint64(V) \notin {<<27>>, <<28>>, <<1>>, <<>>}
    ELSE TRUE

\* (tx *EthereumTransaction) Protected
Protected(t) ==
    IF t.inner.txType = EthereumLegacyTxType
    THEN t.inner.V # Nil /\ isProtectedV(t.inner.V)
    ELSE TRUE

(***************************************************************************)
(* SpecProtected: Protected asked of decoded transactions of every variant *)
(***************************************************************************)

\* 2^64: nine bytes whose low 64 bits are zero.
TwoTo64 == <<1, 0, 0, 0, 0, 0, 0, 0, 0>>

\* v scalars: the four unprotected ones, their neighbours, chain-bound ones,
\* both sides of 8 bits, and wide ones whose low bits are 0 and 27.
ProtectedVs ==
    {BigOf(n) : n \in {0, 1, 2, 26, 27, 28, 29, 35, 36, 203, 255, 256, 283}}
    \cup {MkBig(FALSE, TwoTo64), MkBig(FALSE, AbsAddSmall(TwoTo64, 27))}

ProtectedInners ==
    {LegacyTx(n, EthereumGasPrice, NatToBytes(21000), to, big0, <<170>>, v, SigR, SigS) :
        n \in Nonces, to \in Recipients, v \in ProtectedVs}
    \cup
    {AccessListTx(BigOf(84), n, EthereumGasPrice, NatToBytes(21000), to, big0, d, <<>>,
                  v, SigR, SigS) :
        n \in Nonces, to \in Recipients, d \in DataSet, v \in {BigOf(0), BigOf(1), BigOf(27)}}
    \cup
    {DynamicFeeTx(BigOf(84), n, BigOf(1), EthereumGasPrice, NatToBytes(21000), to, big0,
                  d, <<>>, v, SigR, SigS) :
        n \in Nonces, to \in Recipients, d \in DataSet, v \in {BigOf(0), BigOf(1), BigOf(27)}}

InitProtected ==
    /\ \E x \in ProtectedInners :
          tx = DecodeCanonical(ZeroTx, EncodeCanonical(Holding(x))).tx
    /\ wire = Nil
    /\ res = NoCall
    /\ pc = IdleThreads
    /\ loc = NoLocals
    /\ apply = Nil

\* One call tx.Protected(); the receiver is only read.
DoProtected ==
    /\ tx.inner # Nil
    /\ \A t \in Threads : pc[t] = "idle"
    /\ res' = [op |-> "Protected", pre |-> tx, ret |-> Protected(tx)]
    /\ UNCHANGED <<tx, wire, pc, loc, apply>>

NextProtected == DoProtected

SpecProtected == InitProtected /\ [][NextProtected]_vars

(***************************************************************************)
(* The memoised id and sender key                                          *)
(***************************************************************************)

\* Keccak256EthereumHash: a digest is determined by, and determines, its input.
Keccak256EthereumHash(body) == [keccak256 |-> body]

\* The bytes of a freshly allocated crypto.Digest, before the hash is
\* written into it.
ZeroDigest == [zero |-> TRUE]

\* The signing hash: every field but the signature triple, bound to the
\* chain id and, for typed variants, the type tag.
signerHash(inner) ==
    Keccak256EthereumHash(
        [chain |-> chainID(inner),
         fields |-> [f \in (DOMAIN inner) \ {"V", "R", "S"} |-> inner[f]]])

\* The recovery id that v encodes, or -1 when v encodes none.
recoveryId(inner) ==
    LET v == inner.V.abs
    IN IF inner.txType # EthereumLegacyTxType
       THEN (IF v = <<>> THEN 0 ELSE IF v = <<1>> THEN 1 ELSE -1)
       ELSE IF v = <<27>> THEN 0
       ELSE IF v = <<28>> THEN 1
       ELSE IF AbsCmp(v, <<35>>) >= 0 THEN (v[Len(v)] + 1) % 2
       ELSE -1

ErrInvalidSig == ErrorNew("invalid transaction v, r, s values")

\* signer.SenderPK: public-key recovery from (v, r, s) over the signing hash;
\* it fails when r, s or the recovery id is out of range.
SenderPK(t) ==
    IF t.inner.R.abs = <<>> \/ t.inner.S.abs = <<>> \/ recoveryId(t.inner) < 0
    THEN [pk |-> Nil, err |-> ErrInvalidSig]
    ELSE [pk |-> [hash |-> signerHash(t.inner), recid |-> recoveryId(t.inner),
                  r |-> t.inner.R, s |-> t.inner.S],
          err |-> Nil]

(***************************************************************************)
(* SpecRace: goroutines call GetID and Verify on one decoded transaction,  *)
(* each call advancing one memory access at a time                         *)
(***************************************************************************)

BadSigLegacy == [SampleLegacy EXCEPT !.R = big0]

RaceInners == {SampleLegacy, SampleDynamicFee, BadSigLegacy}

InitRace ==
    /\ \E x \in RaceInners : tx = DecodeCanonical(ZeroTx, EncodeCanonical(Holding(x))).tx
    /\ wire = Nil
    /\ res = NoCall
    /\ pc = IdleThreads
    /\ loc = NoLocals
    /\ apply = Nil

Goto(t, label) == pc' = [pc EXCEPT ![t] = label]

\* What goroutine t may read through the pointer tx.id: the digest, and, when
\* another goroutine allocated and published it through the plain field with
\* no synchronisation, also the allocation before the digest was written.
Deref(t, id) ==
    IF id.by = t THEN {id.digest} ELSE {id.digest, ZeroDigest}

\* GetID line 104: if tx.id == nil
GetID_check(t) ==
    /\ pc[t] = "idle"
    /\ Goto(t, IF tx.id = Nil THEN "GenerateID" ELSE "GetID_return")
    /\ loc' = [loc EXCEPT ![t] = [op |-> "GetID"]]
    /\ UNCHANGED <<tx, wire, res, apply>>

\* GenerateID lines 210-217: if tx.id != nil return; else encode and hash.
GenerateID_check(t) ==
    /\ pc[t] = "GenerateID"
    /\ IF tx.id # Nil
       THEN Goto(t, "GetID_return") /\ UNCHANGED loc
       ELSE /\ Goto(t, "GenerateID_store")
            /\ loc' = [loc EXCEPT ![t] =
                          [op |-> "GetID", id |-> Keccak256EthereumHash(EncodeCanonical(tx))]]
    /\ UNCHANGED <<tx, wire, res, apply>>

\* GenerateID line 218: tx.id = &id, a plain store.
GenerateID_store(t) ==
    /\ pc[t] = "GenerateID_store"
    /\ tx' = [tx EXCEPT !.id = [by |-> t, digest |-> loc[t].id]]
    /\ Goto(t, "GetID_return")
    /\ UNCHANGED <<wire, res, loc, apply>>

\* GetID line 109: return tx.id.Bytes(), nil
GetID_return(t) ==
    /\ pc[t] = "GetID_return"
    /\ \E seen \in Deref(t, tx.id) :
          loc' = [loc EXCEPT ![t] = [op |-> "GetID", ret |-> seen, err |-> Nil]]
    /\ Goto(t, "done")
    /\ UNCHANGED <<tx, wire, res, apply>>

\* Verify lines 140-147: load the cached key; if there is none, recover it.
Verify_load(t) ==
    /\ pc[t] = "idle"
    /\ IF tx.senderPK # Nil
       THEN /\ loc' = [loc EXCEPT ![t] = [op |-> "Verify", ret |-> tx.senderPK, err |-> Nil]]
            /\ Goto(t, "done")
       ELSE IF SenderPK(tx).err # Nil
       THEN /\ loc' = [loc EXCEPT ![t] =
                          [op |-> "Verify", ret |-> Nil,
                           err |-> Wrap(SenderPK(tx).err, "failed to verify EthereumTransaction")]]
            /\ Goto(t, "done")
       ELSE /\ loc' = [loc EXCEPT ![t] = [op |-> "Verify", senderPK |-> SenderPK(tx).pk]]
            /\ Goto(t, "Verify_store")
    /\ UNCHANGED <<tx, wire, res, apply>>

\* Verify lines 148-149: tx.senderPK.Store(senderPK), an atomic store.
Verify_store(t) ==
    /\ pc[t] = "Verify_store"
    /\ tx' = [tx EXCEPT !.senderPK = loc[t].senderPK]
    /\ loc' = [loc EXCEPT ![t] = [op |-> "Verify", ret |-> loc[t].senderPK, err |-> Nil]]
    /\ Goto(t, "done")
    /\ UNCHANGED <<wire, res, apply>>

\* The caller takes the result; the goroutine is free for its next call.
Return(t) ==
    /\ pc[t] = "done"
    /\ Goto(t, "idle")
    /\ loc' = [loc EXCEPT ![t] = Nil]
    /\ UNCHANGED <<tx, wire, res, apply>>

NextRace ==
    \E t \in Threads :
        \/ GetID_check(t)
        \/ GenerateID_check(t)
        \/ GenerateID_store(t)
        \/ GetID_return(t)
        \/ Verify_load(t)
        \/ Verify_store(t)
        \/ Return(t)

SpecRace == InitRace /\ [][NextRace]_vars

(***************************************************************************)
(* SpecLifecycle: one transaction object over its life: bytes arrive and   *)
(* are decoded into it again, it is replaced from a protobuf message, and  *)
(* validated, while a goroutine asks for its id and its sender key         *)
(***************************************************************************)

\* A second legacy payload, signed by another key for another chain.
OtherLegacy == [SampleLegacy EXCEPT !.V = BigOf(209), !.R = BigOf(9029)]

LifecycleInners == {SampleLegacy, OtherLegacy}

\* What arrives: the encodings of the payloads, and a truncated one.
LifecycleInputs ==
    {[bytes |-> EncodeCanonical(Holding(x)), src |-> x] : x \in LifecycleInners}
    \cup {[bytes |-> SubSeq(MarshalTo(marshalToFastRLP(SampleLegacy)), 1, 20), src |-> Nil]}

\* The goroutine that owns the object.
Owners == {1}

InitLifecycle ==
    /\ tx = PriorTx
    /\ wire = Nil
    /\ res = NoCall
    /\ pc = IdleThreads
    /\ loc = NoLocals
    /\ apply = Nil

\* Bytes arrive for the object (the argument of the next decoding call).
Arrive(m) ==
    /\ wire = Nil
    /\ wire' = m
    /\ UNCHANGED <<tx, res, pc, loc, apply>>

\* SignedTxFromProtobuf: a new transaction object decoded from the bytes the
\* message carries.
SignedTxFromProtobuf(bytes) == DecodeCanonical(ZeroTx, bytes)

\* One call tx.UnmarshalSignedFromProtobuf(wire): on success the whole
\* object, caches included, is overwritten by the new one (*tx = *ethTx).
DoUnmarshalSignedFromProtobuf ==
    /\ wire # Nil
    /\ \A t \in Threads : pc[t] = "idle"
    /\ \E ethTx \in {SignedTxFromProtobuf(wire.bytes)} :
          /\ tx' = IF ethTx.err # Nil THEN tx ELSE ethTx.tx
          /\ res' = [op |-> "UnmarshalSignedFromProtobuf", input |-> wire.bytes,
                     pre |-> tx,
                     err |-> IF ethTx.err # Nil
                             THEN Wrap(ethTx.err, "failed to unmarshal from protobuf ethereum transaction")
                             ELSE Nil]
    /\ wire' = Nil
    /\ UNCHANGED <<pc, loc, apply>>

NextLifecycle ==
    \/ \E m \in LifecycleInputs : Arrive(m)
    \/ DoDecodeCanonical
    \/ DoUnmarshalSignedFromProtobuf
    \/ \E scheme \in Schemes : DoValidate(scheme)
    \/ \E t \in Owners :
          \/ GetID_check(t)
          \/ GenerateID_check(t)
          \/ GenerateID_store(t)
          \/ GetID_return(t)
          \/ Verify_load(t)
          \/ Verify_store(t)
          \/ Return(t)

SpecLifecycle == InitLifecycle /\ [][NextLifecycle]_vars

(***************************************************************************)
(* SpecApply: txSnapshot.Apply, one call on the applier at a time          *)
(***************************************************************************)

\* A txSnapshot: regular snapshots, each generated by a tx diff or not, and
\* internal snapshots; id is the place in its list.
RegularLists ==
    UNION {[1..n -> BOOLEAN] : n \in 0..MaxSnapshots}

TxSnapshots ==
    {[regular |-> [k \in DOMAIN flags |-> [id |-> k, generatedByTxDiff |-> flags[k]]],
      internal |-> [k \in 1..n |-> [id |-> k]]] :
        flags \in RegularLists, n \in 0..MaxSnapshots}

\* What a call on the applier may return: nil or an error.
ApplierError == ErrorNew("applier error")
Outcomes == {Nil, ApplierError}

NoSnapshot == [id |-> 0]

\* Every regular snapshot applied, generated by a tx diff or not.
appliesEveryRegular(rs) == TRUE

\* if !rs.IsGeneratedByTxDiff()
appliesRegular(rs) == ~rs.generatedByTxDiff

\* Where the call stands once the loop variable is i: a loop that has run out
\* gives way to the next loop, the last loop to the closing hook.
RECURSIVE Position(_, _, _)
Position(ts, phase, i) ==
    IF phase = "regular" /\ i > Len(ts.regular) THEN Position(ts, "internal", 1)
    ELSE IF phase = "internal" /\ i > Len(ts.internal) THEN [pc |-> "after", i |-> 0]
    ELSE [pc |-> phase, i |-> i]

\* The call goes on at position p.
Proceed(p, calls) == apply' = [apply EXCEPT !.pc = p.pc, !.i = p.i, !.calls = calls]

\* The call returns err.
ReturnFromApply(err, calls) ==
    apply' = [apply EXCEPT !.pc = "done", !.i = 0, !.calls = calls, !.ret = err]

InitApply ==
    /\ \E ts \in TxSnapshots :
          apply = [ts |-> ts, pc |-> "before", i |-> 0, calls |-> <<>>, ret |-> Nil]
    /\ tx = ZeroTx
    /\ wire = Nil
    /\ res = NoCall
    /\ pc = IdleThreads
    /\ loc = NoLocals

\* Lines 149-151: a.BeforeTxSnapshotApply()
Apply_before ==
    /\ apply.pc = "before"
    /\ \E err \in Outcomes :
          LET calls == Append(apply.calls,
                              [step |-> "BeforeTxSnapshotApply", snapshot |-> NoSnapshot,
                               err |-> err])
          IN IF err # Nil
             THEN ReturnFromApply(Wrap(err, "failed to execute before tx snapshot apply hook"),
                                  calls)
             ELSE Proceed(Position(apply.ts, "regular", 1), calls)
    /\ UNCHANGED <<tx, wire, res, pc, loc>>

\* Lines 153-160: one round of the loop over ts.regular.
Apply_regular ==
    /\ apply.pc = "regular"
    /\ LET rs == apply.ts.regular[apply.i]
           next == Position(apply.ts, "regular", apply.i + 1)
       IN IF appliesRegular(rs)
          THEN \E err \in Outcomes :
                  LET calls == Append(apply.calls,
                                      [step |-> "regular", snapshot |-> rs, err |-> err])
                  IN IF err # Nil
                     THEN ReturnFromApply(
                              Wrap(err, "failed to apply regular transaction snapshot"), calls)
                     ELSE Proceed(next, calls)
          ELSE Proceed(next, apply.calls)
    /\ UNCHANGED <<tx, wire, res, pc, loc>>

\* Lines 161-166: one round of the loop over ts.internal.
Apply_internal ==
    /\ apply.pc = "internal"
    /\ \E err \in Outcomes :
          LET is == apply.ts.internal[apply.i]
              calls == Append(apply.calls,
                              [step |-> "internal", snapshot |-> is, err |-> err])
          IN IF err # Nil
             THEN ReturnFromApply(
                      Wrap(err, "failed to apply internal transaction snapshot"), calls)
             ELSE Proceed(Position(apply.ts, "internal", apply.i + 1), calls)
    /\ UNCHANGED <<tx, wire, res, pc, loc>>

\* Lines 167-170: a.AfterTxSnapshotApply(), then return nil.
Apply_after ==
    /\ apply.pc = "after"
    /\ \E err \in Outcomes :
          LET calls == Append(apply.calls,
                              [step |-> "AfterTxSnapshotApply", snapshot |-> NoSnapshot,
                               err |-> err])
          IN IF err # Nil
             THEN ReturnFromApply(Wrap(err, "failed to execute after tx snapshot apply hook"),
                                  calls)
             ELSE ReturnFromApply(Nil, calls)
    /\ UNCHANGED <<tx, wire, res, pc, loc>>

NextApply ==
    \/ Apply_before
    \/ Apply_regular
    \/ Apply_internal
    \/ Apply_after

SpecApply == InitApply /\ [][NextApply]_vars

(***************************************************************************)
(* The validator's rules as the specification lists them (4.5), each on    *)
(* its own, and the error each one reports                                 *)
(***************************************************************************)

ChainMismatch == NewTxValidationError("Address belongs to another network")
NotLegacyVariant == NewTxValidationError("the ethereum transaction's type is not legacy tx")
OversizedTransaction == NewTxValidationError("too big size of transaction")
InsufficientFee == NewFeeValidation("insufficient fee")
TooManyWaves == NewFeeValidation("too many waves")
NonPositiveAmount == NewNonPositiveAmount("waves")
CancellationNotSupported == NewTxValidationError("Transaction cancellation is not supported")
EitherDataOrValue == NewTxValidationError("Transaction should have either data or value")
InvalidGasPrice == NewTxValidationError("Gas price must be 10 Gwei")
ContractCreationNotSupported == NewTxValidationError("Contract creation transaction is not supported")
InvalidTimestamp == NewTxValidationError("invalid timestamp")

\* The error kinds of the specification that cover two messages of the code.
UnsupportedVariant == {NotLegacyVariant, ContractCreationNotSupported}
InvalidPayloadShape == {CancellationNotSupported, EitherDataOrValue}

ErrType(e) == IF e = Nil THEN "nil" ELSE e.type

\* The amount in wavelets is no int64: wei >= 2^63 * 10^10 or wei < -(2^63 * 10^10).
AmountOutOfRange(wei) ==
    \/ ~wei.neg /\ AbsCmp(wei.abs, TooManyWei) >= 0
    \/ wei.neg /\ AbsCmp(wei.abs, TooManyWei) > 0

\* The value-conversion step yields an amount, and it is below zero.
AmountNegative(wei) == wei.neg /\ ~AmountOutOfRange(wei)

RuleFails(i, t, scheme) ==
    CASE i = 1 -> ChainId(t) # BigOf(scheme)
      [] i = 2 -> t.inner.txType \in {EthereumAccessListTxType, EthereumDynamicFeeTxType}
      [] i = 3 -> t.innerBinarySize >= 1048577
      [] i = 4 -> Gas(t) = <<>>
      [] i = 5 -> AmountOutOfRange(Value(t)) \/ AmountNegative(Value(t))
      [] i = 6 -> Value(t).abs = <<>> /\ Data(t) = <<>>
      [] i = 7 -> Value(t).abs # <<>> /\ Data(t) # <<>>
      [] i = 8 -> GasPrice(t) # EthereumGasPrice
      [] i = 9 -> To(t) = Nil
      [] i = 10 -> Nonce(t) = <<>>

RuleError(i, t) ==
    CASE i = 1 -> ChainMismatch
      [] i = 2 -> NotLegacyVariant
      [] i = 3 -> OversizedTransaction
      [] i = 4 -> InsufficientFee
      [] i = 5 -> IF AmountOutOfRange(Value(t)) THEN TooManyWaves ELSE NonPositiveAmount
      [] i = 6 -> CancellationNotSupported
      [] i = 7 -> EitherDataOrValue
      [] i = 8 -> InvalidGasPrice
      [] i = 9 -> ContractCreationNotSupported
      [] i = 10 -> InvalidTimestamp

FailedRules(t, scheme) == {i \in 1..10 : RuleFails(i, t, scheme)}

PassesRules(n, t, scheme) == \A i \in 1..n : ~RuleFails(i, t, scheme)

Least(S) == CHOOSE i \in S : \A j \in S : i <= j

Validated == res.op = "Validate"

(***************************************************************************)
(* Claims about Validate (checked under SpecValidate)                      *)
(***************************************************************************)

\* C1: Validate reports the error of the lowest-numbered failing rule in the
\* order 1..10 (chain id, legacy-only, size, gas limit, value conversion,
\* both-empty, both-non-empty, gas price, recipient, nonce), however many
\* rules the transaction fails at once.
C1_FirstFailingRuleWins ==
    Validated =>
        LET bad == FailedRules(res.pre, res.scheme)
        IN bad # {} => /\ res.err = RuleError(Least(bad), res.pre)
                       /\ res.ret = Nil

\* C1 witness: a wrong chain id together with an oversized payload was
\* validated and reported ChainMismatch.
C1_Witness ==
    /\ Validated
    /\ {1, 3} \subseteq FailedRules(res.pre, res.scheme)
    /\ res.err = ChainMismatch

\* C2: Validate returns the transaction itself and no error for every legacy
\* transaction with the target's chain id, a recorded length of at most
\* 1 MiB, a gas limit above zero, a value that converts to an amount not
\* below zero, exactly one of value and data non-empty, a gas price of
\* 10 Gwei, a recipient and a nonce above zero.
C2_ValidAccepted ==
    (/\ Validated
     /\ res.pre.inner.txType = EthereumLegacyTxType
     /\ ChainId(res.pre) = BigOf(res.scheme)
     /\ res.pre.innerBinarySize <= 1048576
     /\ Gas(res.pre) # <<>>
     /\ ~AmountOutOfRange(Value(res.pre)) /\ ~Value(res.pre).neg
     /\ (Value(res.pre).abs = <<>>) # (Data(res.pre) = <<>>)
     /\ GasPrice(res.pre).abs = <<2, 84, 11, 228, 0>> /\ ~GasPrice(res.pre).neg
     /\ To(res.pre) # Nil
     /\ Nonce(res.pre) # <<>>)
    => res.err = Nil /\ res.ret = res.pre

\* C2 witness: scenario A (value 0, data non-empty, 10 Gwei, gas limit 21000,
\* recipient present, nonce 1, matching chain id) was accepted.
C2_Witness ==
    /\ Validated
    /\ res.pre.inner.txType = EthereumLegacyTxType
    /\ Value(res.pre) = big0 /\ Data(res.pre) # <<>>
    /\ GasPrice(res.pre) = EthereumGasPrice
    /\ Gas(res.pre) = NatToBytes(21000)
    /\ To(res.pre) # Nil
    /\ Nonce(res.pre) = NatToBytes(1)
    /\ ChainId(res.pre) = BigOf(res.scheme)
    /\ res.err = Nil /\ res.ret = res.pre

\* C3: every transaction Validate accepts has the target's chain id, is the
\* legacy variant, records at most 1048576 encoded bytes, has a gas limit
\* above zero, exactly one of value and data non-empty, a gas price of
\* 10 * 10^9, a recipient and a nonce above zero.
C3_AcceptedIsWellFormed ==
    (Validated /\ res.err = Nil) =>
        /\ res.ret = res.pre
        /\ ChainId(res.pre) = BigOf(res.scheme)
        /\ res.pre.inner.txType = EthereumLegacyTxType
        /\ res.pre.innerBinarySize <= 1048576
        /\ Gas(res.pre) # <<>>
        /\ (Value(res.pre).abs = <<>>) # (Data(res.pre) = <<>>)
        /\ GasPrice(res.pre).abs = <<2, 84, 11, 228, 0>> /\ ~GasPrice(res.pre).neg
        /\ To(res.pre) # Nil
        /\ Nonce(res.pre) # <<>>

\* C3 witness: a transaction carrying value and no data was accepted.
C3_Witness ==
    /\ Validated /\ res.err = Nil
    /\ Value(res.pre) # big0 /\ Data(res.pre) = <<>>

\* C5: a transaction that the first five rules let through is rejected with
\* InvalidPayloadShape when value and data are both empty (cancellation)
\* and when both are non-empty, and is not rejected for its payload shape
\* when exactly one of them is non-empty.
C5_PayloadShape ==
    (Validated /\ PassesRules(5, res.pre, res.scheme)) =>
        LET noValue == Value(res.pre).abs = <<>>
            noData == Data(res.pre) = <<>>
        IN /\ (noValue /\ noData) => res.err = CancellationNotSupported
           /\ (~noValue /\ ~noData) => res.err = EitherDataOrValue
           /\ (noValue # noData) => res.err \notin InvalidPayloadShape

\* C5 witness: scenario B (value 0, data empty, otherwise valid) was rejected
\* as a cancellation.
C5_Witness ==
    /\ Validated
    /\ FailedRules(res.pre, res.scheme) = {6}
    /\ res.err = CancellationNotSupported

\* C6 as claimed: after rules 1 to 4, the value conversion rejects with
\* NonPositiveAmount only, when the converted amount is below zero, and
\* never with an InsufficientFee or another kind.
C6_Original ==
    (Validated /\ PassesRules(4, res.pre, res.scheme)) =>
        /\ ErrType(res.err) # "FeeValidation"
        /\ Value(res.pre).neg => res.err = NonPositiveAmount

\* C6 amended: after rules 1 to 4, the value conversion rejects with a fee
\* validation error ("too many waves") when the converted amount is no
\* signed 64-bit number, with NonPositiveAmount when it is one and is below
\* zero, and not at all otherwise.
C6_ConversionErrors ==
    (Validated /\ PassesRules(4, res.pre, res.scheme)) =>
        /\ AmountOutOfRange(Value(res.pre)) => res.err = TooManyWaves
        /\ AmountNegative(Value(res.pre)) => res.err = NonPositiveAmount
        /\ (~AmountOutOfRange(Value(res.pre)) /\ ~Value(res.pre).neg) =>
               ErrType(res.err) \notin {"FeeValidation", "NonPositiveAmount"}

\* C6 witness: a value of 2^63 * 10^10 wei passed rules 1 to 4 and was
\* rejected with the fee validation error.
C6_Witness ==
    /\ Validated
    /\ PassesRules(4, res.pre, res.scheme)
    /\ Value(res.pre) = MkBig(FALSE, TooManyWei)
    /\ res.err = TooManyWaves

\* C7 as claimed: a transaction without a recipient is rejected with
\* UnsupportedVariant.
C7_Original ==
    (Validated /\ To(res.pre) = Nil) => res.err \in UnsupportedVariant

\* C7 amended: a transaction without a recipient is always rejected, and
\* with UnsupportedVariant (contract creation) when rules 1 to 8 let it
\* through.
C7_ContractCreationRejected ==
    (Validated /\ To(res.pre) = Nil) =>
        /\ res.err # Nil /\ res.ret = Nil
        /\ PassesRules(8, res.pre, res.scheme) =>
               res.err = ContractCreationNotSupported

\* C7 witness: scenario E (no recipient, otherwise valid) was rejected as
\* a contract creation.
C7_Witness ==
    /\ Validated
    /\ FailedRules(res.pre, res.scheme) = {9}
    /\ res.err = ContractCreationNotSupported

(***************************************************************************)
(* Claims about the codec (checked under SpecCodec)                        *)
(***************************************************************************)

Decoded == res.op = "DecodeCanonical"
Encoded == res.op = "EncodeCanonical"

TypedVariants == {EthereumAccessListTxType, EthereumDynamicFeeTxType}

\* C4: the encoding of an access-list or dynamic-fee transaction decodes with
\* success into that variant, Validate never accepts a typed variant, and it
\* rejects one whose chain id is the target's with UnsupportedVariant (not a
\* legacy transaction) whatever the other fields are.
C4_TypedVariantRejected ==
    /\ (Decoded /\ res.src # Nil) =>
           (res.src.txType \in TypedVariants =>
                res.err = Nil /\ tx.inner.txType = res.src.txType)
    /\ (Validated /\ res.pre.inner.txType \in TypedVariants) =>
           /\ res.err # Nil /\ res.ret = Nil
           /\ ChainId(res.pre) = BigOf(res.scheme) => res.err = NotLegacyVariant

\* C4 witness: scenario D, a dynamic-fee transaction that fails no rule but
\* the second, was rejected as not legacy.
C4_Witness ==
    /\ Validated
    /\ res.pre.inner.txType = EthereumDynamicFeeTxType
    /\ FailedRules(res.pre, res.scheme) = {2}
    /\ res.err = NotLegacyVariant

TypedRouteError == "failed to unmarshal from canonical representation ethereum typed transaction"

LegacyRouteErrors ==
    {"failed to parse canonical representation as RLP",
     "failed to unmarshal from RLP ethereum legacy transaction, ethereumTxType EthereumLegacyTxType"}

\* The call took the route of variant ty: it either produced that variant or
\* failed with that route's error.
RoutedTo(ty) ==
    IF res.err = Nil THEN tx.inner.txType = ty
    ELSE IF ty = EthereumLegacyTxType THEN res.err.msg \in LegacyRouteErrors
    ELSE /\ res.err.msg = TypedRouteError
         /\ res.err.cause.msg =
                "failed to unmarshal ethereum tx from RLP, ethereumTxType " \o TypeName(ty)

\* C8: the first byte alone selects the variant: 0x01 the access-list
\* variant, 0x02 the dynamic-fee variant, a byte above 0x7f the legacy
\* variant; every other first byte fails with the unsupported-type error;
\* a successful decode yields the variant of the route taken.
C8_TypeDispatch ==
    (Decoded /\ res.input # <<>>) =>
        LET lead == res.input[1]
        IN IF lead = 1 THEN RoutedTo(EthereumAccessListTxType)
           ELSE IF lead = 2 THEN RoutedTo(EthereumDynamicFeeTxType)
           ELSE IF lead >= 128 THEN RoutedTo(EthereumLegacyTxType)
           ELSE /\ res.err # Nil
                /\ res.err.cause = ErrTxTypeNotSupported
                /\ tx = res.pre

\* C8 witness: bytes led by 0x7f in front of a well-formed list were refused
\* as an unsupported type.
C8_Witness ==
    /\ Decoded
    /\ Len(res.input) > 1 /\ res.input[1] = 127
    /\ res.err # Nil /\ res.err.cause = ErrTxTypeNotSupported

\* C9: decoding the canonical encoding of a valid payload of any variant
\* succeeds and yields that payload, field for field; the encoding is the
\* bare list for legacy and the type tag followed by the list otherwise.
C9_RoundTrip ==
    /\ (Decoded /\ res.src # Nil) =>
           /\ res.err = Nil
           /\ tx.inner = res.src
           /\ tx.innerBinarySize = Len(res.input)
    /\ Encoded =>
           LET list == MarshalTo(marshalToFastRLP(res.pre.inner))
           IN /\ list[1] >= 192
              /\ res.ret = IF res.pre.inner.txType = EthereumLegacyTxType THEN list
                           ELSE <<res.pre.inner.txType>> \o list

\* C9 witness: an access-list payload with a non-empty access list came back
\* from its encoding unchanged.
C9_Witness ==
    /\ Decoded
    /\ res.src # Nil
    /\ res.src.txType = EthereumAccessListTxType
    /\ res.src.AccessList # <<>>
    /\ res.err = Nil
    /\ tx.inner = res.src

(***************************************************************************)
(* Claims about the memoised values (checked under SpecRace)               *)
(***************************************************************************)

Returned(t, op) == pc[t] = "done" /\ loc[t].op = op

\* C10: GetID and Verify return the same value on every call, also when
\* goroutines interleave their first calls: all callers get the id (the
\* sender key) that the payload determines, and every cache store holds
\* that value.
C10_SameValueUnderRaces ==
    /\ \A t \in Threads :
          /\ Returned(t, "GetID") =>
                 loc[t].ret = Keccak256EthereumHash(EncodeCanonical(tx))
          /\ Returned(t, "Verify") =>
                 loc[t].ret = SenderPK(tx).pk /\ (loc[t].err = Nil) = (SenderPK(tx).err = Nil)
    /\ \A t, u \in Threads :
          (pc[t] = "done" /\ pc[u] = "done" /\ loc[t].op = loc[u].op) =>
              loc[t].ret = loc[u].ret
    /\ tx.id # Nil => tx.id.digest = Keccak256EthereumHash(EncodeCanonical(tx))
    /\ tx.senderPK # Nil => tx.senderPK = SenderPK(tx).pk

\* The part of C10 that the code keeps: Verify, whose cache is an
\* atomic.Value, returns the key the payload determines to every caller,
\* and every store into either cache holds the value the payload determines.
C10_VerifyAndStores ==
    /\ \A t \in Threads :
          Returned(t, "Verify") =>
              loc[t].ret = SenderPK(tx).pk /\ (loc[t].err = Nil) = (SenderPK(tx).err = Nil)
    /\ tx.id # Nil => tx.id.digest = Keccak256EthereumHash(EncodeCanonical(tx))
    /\ tx.senderPK # Nil => tx.senderPK = SenderPK(tx).pk

(***************************************************************************)
(* Claims about replay protection (checked under SpecProtected)            *)
(***************************************************************************)

AskedProtected == res.op = "Protected"

\* The v scalars of at most 8 bits that bind no chain.
UnprotectedVs == {BigOf(0), BigOf(1), BigOf(27), BigOf(28)}

\* C11: Protected is true for every access-list and dynamic-fee
\* transaction; for a legacy transaction whose v has at most 8 bits it is
\* true exactly when v is none of 0, 1, 27, 28, and for a legacy
\* transaction whose v has more than 8 bits it is true.
C11_Protected ==
    AskedProtected =>
        LET inner == res.pre.inner
        IN IF inner.txType \in TypedVariants THEN res.ret = TRUE
           ELSE IF AbsCmp(inner.V.abs, <<255>>) <= 0
           THEN res.ret = (inner.V \notin UnprotectedVs)
           ELSE res.ret = TRUE

\* C11 witness: a legacy transaction whose v is 2^64 + 27 (more than 8 bits,
\* low bits 27) was reported protected.
C11_Witness ==
    /\ AskedProtected
    /\ res.pre.inner.txType = EthereumLegacyTxType
    /\ res.pre.inner.V = MkBig(FALSE, AbsAddSmall(TwoTo64, 27))
    /\ res.ret = TRUE

(***************************************************************************)
(* Claims about the object over its life (checked under SpecLifecycle)     *)
(***************************************************************************)

\* The step is a call of DecodeCanonical or of Validate that returns an error.
FailingCall ==
    /\ res' # res \/ wire' # wire
    /\ res'.op \in {"DecodeCanonical", "Validate"}
    /\ res'.err # Nil

\* C12: a call of DecodeCanonical or of Validate that returns an error
\* leaves the payload, the recorded encoded length, the cached id and the
\* cached sender key as they were before the call.
C12_NoPartialMutation == [][FailingCall => tx' = tx]_vars

\* C12 witness: truncated bytes were decoded into an object whose id and
\* sender key were cached; the call failed and the object is what it was.
C12_Witness ==
    /\ Decoded
    /\ res.err # Nil
    /\ res.pre.id # Nil /\ res.pre.senderPK # Nil
    /\ tx = res.pre

\* The same transaction with other contents of the two caches and another
\* signature: every way the sender could be known, unknown or unknowable.
SenderVariants(t) ==
    {[t EXCEPT !.id = i, !.senderPK = k, !.inner.R = r] :
        i \in {Nil, t.id},
        k \in {Nil, t.senderPK, SenderPK(t).pk},
        r \in {big0, t.inner.R}}

\* The step is a call of Validate.
ValidateCall == res' # res /\ res'.op = "Validate"

\* C13: the outcome of Validate is that of the same payload on the same
\* target chain with the sender-key cache and the id cache empty or
\* populated and with a signature that recovers or one that does not, and
\* a call of Validate leaves the payload and both caches unchanged.
C13_ValidateFrame ==
    /\ [](Validated =>
            \A v \in SenderVariants(res.pre) :
                /\ Validate(v, res.scheme).err = res.err
                /\ (Validate(v, res.scheme).ret = Nil) = (res.ret = Nil))
    /\ [][ValidateCall => tx' = tx]_vars

\* C13 witness: a transaction whose id and sender key were cached was
\* validated and accepted, and the object is what it was.
C13_Witness ==
    /\ Validated
    /\ res.pre.id # Nil /\ res.pre.senderPK # Nil
    /\ res.err = Nil /\ res.ret = res.pre
    /\ tx = res.pre

\* C14: whatever calls were made on the object, a cached id is the hash of
\* the canonical encoding of the payload the object holds, and a cached
\* sender key is the key recovered from that payload.
C14_CachesFollowPayload ==
    /\ tx.id # Nil => tx.id.digest = Keccak256EthereumHash(EncodeCanonical(tx))
    /\ tx.senderPK # Nil => tx.senderPK = SenderPK(tx).pk

\* What the code keeps of C14: a populated cache holds the value of a
\* payload that was decoded into the object at some time.
C14_CachesOfSomePayload ==
    /\ tx.id # Nil =>
           \E x \in LifecycleInners :
               tx.id.digest = Keccak256EthereumHash(EncodeCanonical(Holding(x)))
    /\ tx.senderPK # Nil =>
           \E x \in LifecycleInners : tx.senderPK = SenderPK(Holding(x)).pk

(***************************************************************************)
(* Claims about txSnapshot.Apply (checked under SpecApply)                 *)
(***************************************************************************)

NotByTxDiff(rs) == rs.generatedByTxDiff = FALSE

Step(name, snapshot) == [step |-> name, snapshot |-> snapshot]

RegularSteps(ts) ==
    LET kept == SelectSeq(ts.regular, NotByTxDiff)
    IN [k \in 1..Len(kept) |-> Step("regular", kept[k])]

InternalSteps(ts) == [k \in 1..Len(ts.internal) |-> Step("internal", ts.internal[k])]

\* The full run: the opening hook, the regular snapshots no tx diff
\* generated, the internal snapshots, the closing hook.
FullRun(ts) ==
    <<Step("BeforeTxSnapshotApply", NoSnapshot)>> \o RegularSteps(ts)
        \o InternalSteps(ts) \o <<Step("AfterTxSnapshotApply", NoSnapshot)>>

\* The calls made so far, without their outcomes.
StepsMade == [k \in 1..Len(apply.calls) |-> Step(apply.calls[k].step, apply.calls[k].snapshot)]

ApplyReturned == apply.pc = "done"

\* C15: the calls Apply makes on the applier are, in this order, the opening
\* hook, every regular snapshot not generated by a tx diff in list order,
\* every internal snapshot in list order, and the closing hook; no call
\* follows one that returned an error; Apply returns the error of the call
\* that failed, and returns nil only after the full run.
C15_ApplyOrder ==
    LET n == Len(apply.calls)
        full == FullRun(apply.ts)
    IN /\ n <= Len(full)
       /\ StepsMade = SubSeq(full, 1, n)
       /\ \A k \in 1..(n - 1) : apply.calls[k].err = Nil
       /\ ~ApplyReturned => \A k \in 1..n : apply.calls[k].err = Nil
       /\ ApplyReturned =>
              /\ n >= 1
              /\ IF apply.calls[n].err = Nil
                 THEN apply.ret = Nil /\ StepsMade = full
                 ELSE apply.ret # Nil /\ apply.ret.cause = apply.calls[n].err

\* C15 witness: of two regular snapshots the one a tx diff generated was
\* passed over and the other applied, then the first internal snapshot
\* failed; Apply returned that error and the second internal snapshot and
\* the closing hook were never called.
C15_Witness ==
    /\ ApplyReturned
    /\ Len(apply.ts.regular) = 2 /\ Len(apply.ts.internal) = 2
    /\ apply.ts.regular[1].generatedByTxDiff /\ ~apply.ts.regular[2].generatedByTxDiff
    /\ Len(apply.calls) = 3
    /\ apply.calls[2] = [step |-> "regular", snapshot |-> apply.ts.regular[2], err |-> Nil]
    /\ apply.calls[3] = [step |-> "internal", snapshot |-> apply.ts.internal[1],
                         err |-> ApplierError]
    /\ apply.ret = Wrap(ApplierError, "failed to apply internal transaction snapshot")

====
